---- MODULE Spec2Model ----
(***************************************************************************)
(* A model of the dungeon generator (procgen.py) and of the engine's turn  *)
(* and visibility cycle (engine.py) of the roguelike.                      *)
(*                                                                         *)
(* Three specifications share the variables:                               *)
(*   Spec       dungeon generation, one action per iteration of the room   *)
(*              loop of generate_dungeon / test_dungeon;                   *)
(*   TurnSpec   the engine on a generated one-room level: the player       *)
(*              moves, update_fov, handle_enemy_turns;                     *)
(*   TableSpec  the two table look-ups, called on inputs drawn in Init.    *)
(***************************************************************************)
EXTENDS Integers, Sequences, FiniteSets

VARIABLES
    variant,                \* which generator runs: generate_dungeon or test_dungeon
    r,                      \* the room loop's counter (for r in range(max_rooms))
    rooms,                  \* the accepted rooms, in order of acceptance
    tiles,                  \* dungeon.tiles: coordinate -> tile type
    entities,               \* dungeon.entities: the placed entities (player included)
    center_of_last_room,    \* the running stair candidate
    downstairs_location,    \* dungeon.downstairs_location
    visible,                \* game_map.visible, as the set of true cells
    explored,               \* game_map.explored, as the set of true cells
    pc,                     \* where the engine is: idle, in the enemy loop, raised
    pending,                \* enemy loop: entities of the snapshot not yet reached
    invoked,                \* enemy loop: id -> times ai.perform() was called this cycle
    had_ai,                 \* enemy loop: ids whose ai was set when the cycle began
    reached_ai,             \* enemy loop: ids whose ai was set when the loop reached them
    lastop,                 \* the engine operation that produced this state
    call,                   \* TableSpec: the call's arguments
    result                  \* TableSpec: what the call returned or raised

vars == <<variant, r, rooms, tiles, entities, center_of_last_room,
          downstairs_location, visible, explored, pc, pending, invoked,
          had_ai, reached_ai, lastop, call, result>>

genvars == <<variant, r, rooms, tiles, entities, center_of_last_room,
             downstairs_location>>
turnvars == <<visible, explored, pc, pending, invoked, had_ai, reached_ai, lastop>>
tablevars == <<call, result>>

----------------------------------------------------------------------------
(* Bounds of the model: the arguments generate_dungeon is called with.     *)

\* map_width
MapWidth == 6
\* map_height
MapHeight == 5
\* max_rooms
MaxRooms == 3
\* room_min_size
RoomMinSize == 2
\* room_max_size
RoomMaxSize == 4
\* engine.game_world.current_floor
CurrentFloor == 1

\* radius=8 in update_fov
FovRadius == 8

Grid == (0 .. MapWidth - 1) \X (0 .. MapHeight - 1)

----------------------------------------------------------------------------
(* Population tables.                                                      *)

max_items_by_floor == << <<1, 1>>, <<4, 2>> >>

max_monsters_by_floor == << <<1, 2>>, <<4, 3>>, <<6, 5>> >>

\* A dict in insertion order: a sequence of <<key, list of <<entity, weight>>>>.
item_chances ==
    << <<0, << <<"health_potion", 35>> >> >>,
       <<2, << <<"confusion_scroll", 10>> >> >>,
       <<4, << <<"lightning_scroll", 25>>, <<"sword", 5>> >> >>,
       <<6, << <<"fireball_scroll", 25>>, <<"chain_mail", 15>> >> >> >>

enemy_chances ==
    << <<0, << <<"orc", 80>> >> >>,
       <<3, << <<"troll", 15>> >> >>,
       <<5, << <<"troll", 30>> >> >>,
       <<7, << <<"troll", 60>> >> >> >>

\* for floor_minimum, value in max_value_by_floor: break at the first
\* floor_minimum > floor, otherwise current_value = value.
RECURSIVE MaxValueLoop(_, _, _, _)
MaxValueLoop(max_value_by_floor, floor, i, current_value) ==
    IF i > Len(max_value_by_floor) THEN current_value
    ELSE IF max_value_by_floor[i][1] > floor THEN current_value
    ELSE MaxValueLoop(max_value_by_floor, floor, i + 1, max_value_by_floor[i][2])

\* The same loop breaking one entry early (>= for >).
RECURSIVE MaxValueLoopEarly(_, _, _, _)
MaxValueLoopEarly(max_value_by_floor, floor, i, current_value) ==
    IF i > Len(max_value_by_floor) THEN current_value
    ELSE IF max_value_by_floor[i][1] >= floor THEN current_value
    ELSE MaxValueLoopEarly(max_value_by_floor, floor, i + 1, max_value_by_floor[i][2])

get_max_value_break_early(max_value_by_floor, floor) ==
    MaxValueLoopEarly(max_value_by_floor, floor, 1, 0)

get_max_value_for_floor(max_value_by_floor, floor) ==
    MaxValueLoop(max_value_by_floor, floor, 1, 0)

\* for value in values: entity_weighted_chances[entity] = weighted_chance
RECURSIVE AssignValues(_, _, _)
AssignValues(chances, values, j) ==
    IF j > Len(values) THEN chances
    ELSE LET entity == values[j][1]
             weighted_chance == values[j][2]
             next == [e \in DOMAIN chances \cup {entity} |->
                         IF e = entity THEN weighted_chance ELSE chances[e]]
         IN  AssignValues(next, values, j + 1)

\* for key, values in weighted_chances_by_floor.items(): break at the first
\* key > floor, in the dict's insertion order.
RECURSIVE CollapseLoop(_, _, _, _)
CollapseLoop(weighted_chances_by_floor, floor, i, chances) ==
    IF i > Len(weighted_chances_by_floor) THEN chances
    ELSE IF weighted_chances_by_floor[i][1] > floor THEN chances
    ELSE CollapseLoop(weighted_chances_by_floor, floor, i + 1,
                      AssignValues(chances, weighted_chances_by_floor[i][2], 1))

entity_weighted_chances(weighted_chances_by_floor, floor) ==
    CollapseLoop(weighted_chances_by_floor, floor, 1, <<>>)

RECURSIVE SumWeights(_, _)
SumWeights(chances, S) ==
    IF S = {} THEN 0
    ELSE LET e == CHOOSE x \in S : TRUE
         IN  chances[e] + SumWeights(chances, S \ {e})

\* random.choices(population, weights=..., k=k): cum_weights[-1] raises
\* IndexError on an empty population whatever k is; a total weight of zero
\* raises ValueError; otherwise any k elements of positive weight.
random_choices(chances, k) ==
    IF DOMAIN chances = {}
    THEN {[raised |-> "IndexError", value |-> <<>>]}
    ELSE IF SumWeights(chances, DOMAIN chances) <= 0
    THEN {[raised |-> "ValueError", value |-> <<>>]}
    ELSE {[raised |-> "none", value |-> s] :
             s \in [1 .. k -> {e \in DOMAIN chances : chances[e] > 0}]}

get_entities_at_random(weighted_chances_by_floor, number_of_entities, floor) ==
    random_choices(entity_weighted_chances(weighted_chances_by_floor, floor),
                   number_of_entities)

----------------------------------------------------------------------------
(* Room shapes.  A room is a record; the fields a shape does not have are  *)
(* zero.                                                                   *)

RectangularRoom(x, y, width, height) ==
    [type |-> "rect", x1 |-> x, y1 |-> y, x2 |-> x + width, y2 |-> y + height,
     x |-> 0, y |-> 0, radius |-> 0, inner_radius |-> 0]

CircularRoom(x, y, radius) ==
    [type |-> "circ", x1 |-> x - radius, y1 |-> y - radius,
     x2 |-> x + radius, y2 |-> y + radius,
     x |-> x, y |-> y, radius |-> radius, inner_radius |-> 0]

RingRoom(x, y, radius, inner_radius) ==
    [type |-> "ring", x1 |-> x - radius, y1 |-> y - radius,
     x2 |-> x + radius, y2 |-> y + radius,
     x |-> x, y |-> y, radius |-> radius, inner_radius |-> inner_radius]

\* The test with the x comparisons made strict: rooms sharing a wall column pass.
intersects_strict_x(self, other) ==
    /\ self.x1 < other.x2
    /\ self.x2 > other.x1
    /\ self.y1 <= other.y2
    /\ self.y2 >= other.y1

intersects(self, other) ==
    /\ self.x1 <= other.x2
    /\ self.x2 >= other.x1
    /\ self.y1 <= other.y2
    /\ self.y2 >= other.y1

\* int((x1 + x2) / 2) for the rectangle (the coordinates are never negative),
\* the defining centre for the circle and the ring.
center(room) ==
    IF room.type = "rect"
    THEN <<(room.x1 + room.x2) \div 2, (room.y1 + room.y2) \div 2>>
    ELSE <<room.x, room.y>>

\* [(x + self.x, y + self.y) ... if math.sqrt(x ** 2 + y ** 2) < self.radius]
CircleInner(x, y, radius) ==
    {<<x + dx, y + dy>> : <<dx, dy>> \in
        {d \in (-radius .. radius) \X (-radius .. radius) :
            d[1] * d[1] + d[2] * d[2] < radius * radius}}

\* slice(x1 + 1, x2), slice(y1 + 1, y2) for the rectangle; the disc for the
\* circle; the disc minus the inner circle's disc for the ring.
inner(room) ==
    IF room.type = "rect"
    THEN ((room.x1 + 1) .. (room.x2 - 1)) \X ((room.y1 + 1) .. (room.y2 - 1))
    ELSE IF room.type = "circ"
    THEN CircleInner(room.x, room.y, room.radius)
    ELSE CircleInner(room.x, room.y, room.radius)
             \ CircleInner(room.x, room.y, room.inner_radius)

place_player_coordinate(room) ==
    IF room.type = "ring"
    THEN <<room.x, room.y - room.inner_radius
                       - ((room.radius - room.inner_radius) \div 2)>>
    ELSE center(room)

----------------------------------------------------------------------------
(* Tunnels.                                                                *)

Sign(n) == IF n > 0 THEN 1 ELSE IF n < 0 THEN -1 ELSE 0

\* The steps of tcod.los.bresenham after the first point: the major axis
\* advances every step, the minor axis when the error term goes negative.
\* dx2, dy2 are the doubled deltas, sx, sy the step signs.
RECURSIVE LineSteps(_, _, _, _, _, _, _, _, _)
LineSteps(ox, oy, e, dx2, dy2, sx, sy, tx, ty) ==
    IF sx * dx2 > sy * dy2
    THEN IF ox = tx THEN <<>>
         ELSE LET e1 == e - sy * dy2
                  nx == ox + sx
                  ny == IF e1 < 0 THEN oy + sy ELSE oy
                  e2 == IF e1 < 0 THEN e1 + sx * dx2 ELSE e1
              IN  <<<<nx, ny>>>> \o LineSteps(nx, ny, e2, dx2, dy2, sx, sy, tx, ty)
    ELSE IF oy = ty THEN <<>>
         ELSE LET e1 == e - sx * dx2
                  ny == oy + sy
                  nx == IF e1 < 0 THEN ox + sx ELSE ox
                  e2 == IF e1 < 0 THEN e1 + sy * dy2 ELSE e1
              IN  <<<<nx, ny>>>> \o LineSteps(nx, ny, e2, dx2, dy2, sx, sy, tx, ty)

\* tcod.los.bresenham(start, end).tolist(): both ends included.
bresenham(start, end) ==
    LET dx == end[1] - start[1]
        dy == end[2] - start[2]
        sx == Sign(dx)
        sy == Sign(dy)
        e  == IF sx * dx > sy * dy THEN sx * dx ELSE sy * dy
    IN  <<start>> \o LineSteps(start[1], start[2], e, 2 * dx, 2 * dy, sx, sy,
                                end[1], end[2])

\* The tunnel that stops at the corner: its second leg is never carved.
tunnel_first_leg_only(start, end, horizontal_first) ==
    LET corner == IF horizontal_first THEN <<end[1], start[2]>>
                  ELSE <<start[1], end[2]>>
    IN  bresenham(start, corner)

\* horizontal_first is the outcome of random.random() < 0.5.
tunnel_between(start, end, horizontal_first) ==
    LET corner == IF horizontal_first THEN <<end[1], start[2]>>
                  ELSE <<start[1], end[2]>>
    IN  bresenham(start, corner) \o bresenham(corner, end)

Range(s) == {s[i] : i \in DOMAIN s}

----------------------------------------------------------------------------
(* The level and its entities.                                             *)

\* GameMap(engine, map_width, map_height, entities=[player]): every tile a
\* wall, nothing visible or explored, downstairs_location (0, 0).
NewTiles == [c \in Grid |-> "wall"]

\* tile_types: floor and down_stairs are walkable and transparent, wall is
\* neither.
walkable(tile) == tile \in {"floor", "down_stairs"}

transparent(tile) == tile \in {"floor", "down_stairs"}

\* The controlled agent: an Actor with an ai of its own.
PlayerId == 0

NewPlayer == [id |-> PlayerId, name |-> "player", x |-> 0, y |-> 0, ai |-> TRUE]

Player(ents) == CHOOSE e \in ents : e.id = PlayerId

\* entity_factories: the templates of enemy_chances are actors with an ai,
\* those of item_chances are items.
TemplateHasAi(name) == name \in {"orc", "troll"}

\* entity.spawn(dungeon, x, y): a copy of the template, placed and added.
spawn(ents, name, x, y) ==
    ents \cup {[id |-> Cardinality(ents), name |-> name, x |-> x, y |-> y,
                ai |-> TemplateHasAi(name)]}

\* player.place(x, y, dungeon)
place(ents, xy) ==
    LET p == Player(ents)
    IN  (ents \ {p}) \cup {[p EXCEPT !.x = xy[1], !.y = xy[2]]}

\* for entity in monsters + items: draw x in [x1 + 1, x2 - 1] and y in
\* [y1 + 1, y2 - 1]; spawn unless an entity already stands there.  The set
\* of the entity sets the loop can end with.
RECURSIVE SpawnLoop(_, _, _, _)
SpawnLoop(ents, names, i, room) ==
    IF i > Len(names) THEN {ents}
    ELSE UNION {
        SpawnLoop(IF \E e \in ents : e.x = x /\ e.y = y
                  THEN ents
                  ELSE spawn(ents, names[i], x, y),
                  names, i + 1, room) :
        <<x, y>> \in ((room.x1 + 1) .. (room.x2 - 1))
                     \X ((room.y1 + 1) .. (room.y2 - 1)) }

\* place_entities(room, dungeon, floor_number): the entity sets it can leave.
\* With the tables above and floor_number >= 0 neither draw can raise.
place_entities(room, ents, floor_number) ==
    UNION {
        SpawnLoop(ents, monsters.value \o items.value, 1, room) :
        <<monsters, items>> \in
            UNION { get_entities_at_random(enemy_chances, nm, floor_number)
                    \X get_entities_at_random(item_chances, ni, floor_number) :
                    <<nm, ni>> \in
                        (0 .. get_max_value_for_floor(max_monsters_by_floor, floor_number))
                        \X (0 .. get_max_value_for_floor(max_items_by_floor, floor_number)) } }

----------------------------------------------------------------------------
(* Dungeon generation.                                                     *)

\* random.randint(room_min_size, room_max_size) for the sides,
\* random.randint(0, dungeon.width - room_width - 1) for the corner.
RectCandidates ==
    UNION { { RectangularRoom(x, y, w, h) :
                <<x, y>> \in (0 .. MapWidth - w - 1) \X (0 .. MapHeight - h - 1) } :
            <<w, h>> \in (RoomMinSize .. RoomMaxSize) \X (RoomMinSize .. RoomMaxSize) }

\* radius in [room_min_size // 2, room_max_size // 2], the centre in
\* [radius, width - radius] x [radius, height - radius].
CircCandidates ==
    UNION { { CircularRoom(x, y, radius) :
                <<x, y>> \in (radius .. MapWidth - radius) \X (radius .. MapHeight - radius) } :
            radius \in (RoomMinSize \div 2) .. (RoomMaxSize \div 2) }

\* as the circle, with inner_radius = random.randint(1, radius).
RingCandidates ==
    UNION { { RingRoom(x, y, rr[1], rr[2]) :
                <<x, y>> \in (rr[1] .. MapWidth - rr[1]) \X (rr[1] .. MapHeight - rr[1]) } :
            rr \in { q \in ((RoomMinSize \div 2) .. (RoomMaxSize \div 2))
                           \X (1 .. (RoomMaxSize \div 2)) : q[2] <= q[1] } }

Carve(t, cells, tile) == [c \in Grid |-> IF c \in cells THEN tile ELSE t[c]]

\* Accept with the stair candidate moved for the first room too.
AcceptMovesCandidate(t, rms, ents, candidate, new_room, insertion, horizontal_first) ==
    LET first  == Len(rms) = 0
        carved == Carve(t, inner(new_room), "floor")
        tunnel == IF first THEN {}
                  ELSE Range(tunnel_between(center(rms[Len(rms)]),
                                            center(new_room), horizontal_first))
    IN  [tiles    |-> Carve(carved, tunnel, "floor"),
         entities |-> IF first THEN place(ents, insertion) ELSE ents,
         last     |-> center(new_room)]

\* The accepted room's writes before place_entities: carve the inner area,
\* place the player (first room) or dig the tunnel from the previous room's
\* centre and move the stair candidate (later rooms).
Accept(t, rms, ents, candidate, new_room, insertion, horizontal_first) ==
    LET first  == Len(rms) = 0
        carved == Carve(t, inner(new_room), "floor")
        tunnel == IF first THEN {}
                  ELSE Range(tunnel_between(center(rms[Len(rms)]),
                                            center(new_room), horizontal_first))
    IN  [tiles    |-> Carve(carved, tunnel, "floor"),
         entities |-> IF first THEN place(ents, insertion) ELSE ents,
         last     |-> IF first THEN candidate ELSE center(new_room)]

\* dungeon.tiles[center_of_last_room] = tile_types.down_stairs
WriteStairs(t, last) == Carve(t, {last}, "down_stairs")

\* The level as the loop holds it.
Level(t, rms, ents, candidate) ==
    [tiles |-> t, rooms |-> rms, entities |-> ents, last |-> candidate]

\* The rest of an iteration for a room that intersects no accepted room:
\* Accept, place_entities, the stair write, rooms.append.  The set of levels
\* it can leave, one per outcome of place_entities.
AcceptRoom(level, new_room, insertion, horizontal_first) ==
    LET acc == Accept(level.tiles, level.rooms, level.entities, level.last,
                      new_room, insertion, horizontal_first)
    IN  { Level(WriteStairs(acc.tiles, acc.last), Append(level.rooms, new_room),
                ents, acc.last) :
          ents \in place_entities(new_room, acc.entities, CurrentFloor) }

\* One iteration of the room loop once new_room is drawn; insertion is where
\* the player goes if this is the first accepted room.
Attempt(new_room, insertion) ==
    IF \E i \in 1 .. Len(rooms) : intersects(new_room, rooms[i])
    THEN /\ r' = r + 1
         /\ UNCHANGED <<variant, rooms, tiles, entities, center_of_last_room,
                        downstairs_location>>
    ELSE \E horizontal_first \in (IF Len(rooms) = 0 THEN {TRUE} ELSE BOOLEAN) :
         \E level \in AcceptRoom(Level(tiles, rooms, entities, center_of_last_room),
                                 new_room, insertion, horizontal_first) :
             /\ entities' = level.entities
             /\ tiles' = level.tiles
             /\ center_of_last_room' = level.last
             /\ downstairs_location' = level.last
             /\ rooms' = level.rooms
             /\ r' = r + 1
             /\ UNCHANGED variant

GenerateDungeonIteration ==
    /\ variant = "generate_dungeon"
    /\ r < MaxRooms
    /\ \E new_room \in RectCandidates : Attempt(new_room, center(new_room))
    /\ UNCHANGED <<turnvars, tablevars>>

\* room_type_check < 0.6 draws a rectangle, < 0.9 a circle, otherwise a ring.
TestDungeonIteration ==
    /\ variant = "test_dungeon"
    /\ r < MaxRooms
    /\ \E new_room \in RectCandidates \cup CircCandidates \cup RingCandidates :
           Attempt(new_room, place_player_coordinate(new_room))
    /\ UNCHANGED <<turnvars, tablevars>>

\* The loop is over and the level returned.
Returned == r = MaxRooms

TurnIdle ==
    /\ visible = {}
    /\ explored = {}
    /\ pc = "idle"
    /\ pending = {}
    /\ invoked = <<>>
    /\ had_ai = {}
    /\ reached_ai = {}
    /\ lastop = "none"

TableIdle ==
    /\ call = [fn |-> "none"]
    /\ result = [state |-> "none"]

Init ==
    /\ variant \in {"generate_dungeon", "test_dungeon"}
    /\ r = 0
    /\ rooms = <<>>
    /\ tiles = NewTiles
    /\ entities = {NewPlayer}
    /\ center_of_last_room = <<0, 0>>
    /\ downstairs_location = <<0, 0>>
    /\ TurnIdle
    /\ TableIdle

Next == GenerateDungeonIteration \/ TestDungeonIteration

Spec == Init /\ [][Next]_vars

----------------------------------------------------------------------------
(* The engine: the player's move, update_fov, handle_enemy_turns.          *)

\* Entity.move(dx, dy)
move(e, dx, dy) == [e EXCEPT !.x = e.x + dx, !.y = e.y + dy]

Directions == {d \in {-1, 0, 1} \X {-1, 0, 1} : d # <<0, 0>>}

\* game_map.actors: the placed entities that are actors.
IsActor(e) == e.name \in {"player", "orc", "troll"}

actors(ents) == {e \in ents : IsActor(e)}

\* Where a move may end: inside the map, on a walkable tile, on no cell a
\* living actor holds.
CanEnter(ents, xy) ==
    /\ xy \in Grid
    /\ walkable(tiles[xy])
    /\ ~\E o \in ents : IsActor(o) /\ o.ai /\ o.x = xy[1] /\ o.y = xy[2]

\* compute_fov(transparency, pov, radius): the cells within the radius whose
\* line from pov crosses only transparent cells; the cell itself may be a wall.
compute_fov(t, pov, radius) ==
    {c \in Grid :
        /\ (c[1] - pov[1]) * (c[1] - pov[1]) + (c[2] - pov[2]) * (c[2] - pov[2])
               <= radius * radius
        /\ LET line == bresenham(pov, c)
           IN  \A i \in 2 .. Len(line) - 1 : transparent(t[line[i]])}

\* entity.ai.perform(): what one call can do.  It returns, raises Impossible
\* (nothing was done) or fails otherwise; when it returns the actor may have
\* done nothing to the others or killed another living actor, which loses its
\* ai.  The actor's own steps are left out: nothing below reads where an
\* enemy stands.
perform(e, ents) ==
    {[raises |-> "none", entities |-> ents]}
    \cup {[raises |-> "none", entities |-> (ents \ {o}) \cup {[o EXCEPT !.ai = FALSE]}] :
            o \in {q \in actors(ents) : q.id # e.id /\ q.ai}}
    \cup {[raises |-> "Impossible", entities |-> ents],
          [raises |-> "Error", entities |-> ents]}

PlayerMoves ==
    /\ pc = "idle"
    /\ Player(entities).ai
    /\ \E d \in Directions :
        LET p == Player(entities)
        IN  /\ CanEnter(entities, <<p.x + d[1], p.y + d[2]>>)
            /\ entities' = (entities \ {p}) \cup {move(p, d[1], d[2])}
    /\ lastop' = "move"
    /\ invoked' = <<>>
    /\ had_ai' = {}
    /\ reached_ai' = {}
    /\ UNCHANGED <<visible, explored, pc, pending>>
    /\ UNCHANGED <<variant, r, rooms, tiles, center_of_last_room, downstairs_location>>
    /\ UNCHANGED tablevars

\* update_fov that adds the new field of view to the old visible array.
UpdateFovAccumulates ==
    /\ pc = "idle"
    /\ LET p == Player(entities)
       IN  visible' = visible \cup compute_fov(tiles, <<p.x, p.y>>, FovRadius)
    /\ explored' = explored \cup visible'
    /\ lastop' = "update_fov"
    /\ invoked' = <<>>
    /\ had_ai' = {}
    /\ reached_ai' = {}
    /\ UNCHANGED <<pc, pending, genvars, tablevars>>

UpdateFov ==
    /\ pc = "idle"
    /\ LET p == Player(entities)
       IN  visible' = compute_fov(tiles, <<p.x, p.y>>, FovRadius)
    /\ explored' = explored \cup visible'
    /\ lastop' = "update_fov"
    /\ invoked' = <<>>
    /\ had_ai' = {}
    /\ reached_ai' = {}
    /\ UNCHANGED <<pc, pending, genvars, tablevars>>

\* handle_enemy_turns up to its loop: the snapshot set(actors) - {player}.
HandleEnemyTurns ==
    /\ pc = "idle"
    /\ LET snapshot == {e.id : e \in actors(entities)} \ {PlayerId}
       IN  /\ pending' = snapshot
           /\ pc' = IF snapshot = {} THEN "idle" ELSE "enemies"
    /\ invoked' = [i \in {e.id : e \in entities} |-> 0]
    /\ had_ai' = {e.id : e \in {q \in entities : q.ai}}
    /\ reached_ai' = {}
    /\ lastop' = "handle_enemy_turns"
    /\ UNCHANGED <<visible, explored, genvars, tablevars>>

\* The iteration with the try/except left out: Impossible leaves the loop too.
IterationNoExcept(e, out) ==
    IF ~e.ai
    THEN /\ pending' = pending \ {e.id}
         /\ pc' = IF pending' = {} THEN "idle" ELSE "enemies"
         /\ lastop' = "skip"
         /\ UNCHANGED <<entities, invoked, reached_ai>>
    ELSE /\ invoked' = [invoked EXCEPT ![e.id] = @ + 1]
         /\ reached_ai' = reached_ai \cup {e.id}
         /\ entities' = out.entities
         /\ lastop' = "perform_" \o out.raises
         /\ IF out.raises # "none"
            THEN pc' = "raised" /\ pending' = pending
            ELSE /\ pending' = pending \ {e.id}
                 /\ pc' = IF pending' = {} THEN "idle" ELSE "enemies"

\* One iteration of the loop, in any order of the set, for the outcome out
\* of perform.  except exceptions.Impossible: pass; anything else leaves the
\* loop and the caller.
Iteration(e, out) ==
    IF ~e.ai
    THEN /\ pending' = pending \ {e.id}
         /\ pc' = IF pending' = {} THEN "idle" ELSE "enemies"
         /\ lastop' = "skip"
         /\ UNCHANGED <<entities, invoked, reached_ai>>
    ELSE /\ invoked' = [invoked EXCEPT ![e.id] = @ + 1]
         /\ reached_ai' = reached_ai \cup {e.id}
         /\ entities' = out.entities
         /\ lastop' = "perform_" \o out.raises
         /\ IF out.raises = "Error"
            THEN pc' = "raised" /\ pending' = pending
            ELSE /\ pending' = pending \ {e.id}
                 /\ pc' = IF pending' = {} THEN "idle" ELSE "enemies"

EnemyTurn ==
    /\ pc = "enemies"
    /\ \E e \in {q \in entities : q.id \in pending} :
       \E out \in perform(e, entities) :
           Iteration(e, out)
    /\ UNCHANGED <<visible, explored, had_ai>>
    /\ UNCHANGED <<variant, r, rooms, tiles, center_of_last_room, downstairs_location>>
    /\ UNCHANGED tablevars

\* The levels the engine starts on: test_dungeon's result for three circular
\* rooms of the smallest radius drawn in three corners of the map, with the
\* tunnels turning at the horizontal-first corner, for any outcome of
\* place_entities.
TurnRooms ==
    LET radius == RoomMinSize \div 2
    IN  << CircularRoom(radius, radius, radius),
           CircularRoom(MapWidth - radius - 1, radius, radius),
           CircularRoom(radius, MapHeight - radius, radius) >>

NewLevel == Level(NewTiles, <<>>, {NewPlayer}, <<0, 0>>)

RECURSIVE LevelsOf(_, _, _, _)
LevelsOf(levels, rms, i, horizontal_first) ==
    IF i > Len(rms) THEN levels
    ELSE LevelsOf(UNION {AcceptRoom(l, rms[i], place_player_coordinate(rms[i]),
                                    horizontal_first) : l \in levels},
                  rms, i + 1, horizontal_first)

TurnLevels == LevelsOf({NewLevel}, TurnRooms, 1, TRUE)

TurnInit ==
    /\ \E level \in TurnLevels :
        /\ tiles = level.tiles
        /\ rooms = level.rooms
        /\ entities = level.entities
        /\ center_of_last_room = level.last
        /\ downstairs_location = level.last
    /\ variant = "test_dungeon"
    /\ r = MaxRooms
    /\ TurnIdle
    /\ TableIdle

TurnNext == PlayerMoves \/ UpdateFov \/ HandleEnemyTurns \/ EnemyTurn

TurnSpec == TurnInit /\ [][TurnNext]_vars

----------------------------------------------------------------------------
(* The table look-ups on their own: Init draws a call, the action makes it. *)

\* At most this many entries in a table.
MaxTableLen == 2
\* number_of_entities is drawn up to this.
MaxCount == 2

Thresholds == 0 .. 2

Floors == -1 .. 7

Templates == {"orc", "troll"}

Weights == {15, 80}

SeqsUpTo(S, n) == UNION {[1 .. k -> S] : k \in 0 .. n}

\* Tables of (threshold, value) listed in strictly ascending threshold order,
\* and the two tables of the program.
MaxValueTables ==
    {t \in SeqsUpTo(Thresholds \X (0 .. 2), MaxTableLen) :
        \A i \in 1 .. Len(t) - 1 : t[i][1] < t[i + 1][1]}
    \cup {max_items_by_floor, max_monsters_by_floor}

\* The lists of a weighted table: one pair, or a pair for each template.
ChanceLists ==
    {<<p>> : p \in Templates \X Weights}
    \cup {<<p, q>> : <<p, q>> \in
            {pq \in (Templates \X Weights) \X (Templates \X Weights) :
                pq[1][1] # pq[2][1]}}

\* Dicts in any insertion order: the keys are distinct, not always ascending.
WeightedTables ==
    {t \in SeqsUpTo(Thresholds \X ChanceLists, MaxTableLen) :
        \A i, j \in 1 .. Len(t) : i # j => t[i][1] # t[j][1]}
    \cup {enemy_chances}

TableCalls ==
    {[fn |-> "get_max_value_for_floor", table |-> t, floor |-> f, count |-> 0] :
        <<t, f>> \in MaxValueTables \X Floors}
    \cup {[fn |-> "get_entities_at_random", table |-> t, floor |-> f, count |-> k] :
            <<t, f, k>> \in WeightedTables \X Floors \X (0 .. MaxCount)}

TableInit ==
    /\ call \in TableCalls
    /\ result = [state |-> "pending", value |-> <<>>, weights |-> <<>>]
    /\ variant = "none"
    /\ r = 0
    /\ rooms = <<>>
    /\ tiles = NewTiles
    /\ entities = {NewPlayer}
    /\ center_of_last_room = <<0, 0>>
    /\ downstairs_location = <<0, 0>>
    /\ TurnIdle

CallGetMaxValueForFloor ==
    /\ call.fn = "get_max_value_for_floor"
    /\ result.state = "pending"
    /\ result' = [state |-> "returned",
                  value |-> get_max_value_for_floor(call.table, call.floor),
                  weights |-> <<>>]
    /\ UNCHANGED <<call, genvars, turnvars>>

\* weights keeps the collapsed mapping the draw was made from.
CallGetEntitiesAtRandom ==
    /\ call.fn = "get_entities_at_random"
    /\ result.state = "pending"
    /\ \E out \in get_entities_at_random(call.table, call.count, call.floor) :
        result' = [state |-> IF out.raised = "none" THEN "returned" ELSE out.raised,
                   value |-> out.value,
                   weights |-> entity_weighted_chances(call.table, call.floor)]
    /\ UNCHANGED <<call, genvars, turnvars>>

TableNext == CallGetMaxValueForFloor \/ CallGetEntitiesAtRandom

TableSpec == TableInit /\ [][TableNext]_vars

----------------------------------------------------------------------------
(* Properties of dungeon generation, checked under Spec.                   *)

BoxCells(room) == (room.x1 .. room.x2) \X (room.y1 .. room.y2)

Carved == {c \in Grid : tiles[c] \in {"floor", "down_stairs"}}

Neighbours(c) ==
    {<<c[1] + 1, c[2]>>, <<c[1] - 1, c[2]>>, <<c[1], c[2] + 1>>, <<c[1], c[2] - 1>>}

\* The cells of `within` joined to `seen` by orthogonal steps inside `within`.
RECURSIVE Flood(_, _, _)
Flood(frontier, seen, within) ==
    IF frontier = {} THEN seen
    ELSE LET next == (UNION {Neighbours(c) : c \in frontier} \cap within) \ seen
         IN  Flood(next, seen \cup next, within)

Centers == {center(rooms[i]) : i \in 1 .. Len(rooms)}

\* C1: no two accepted rooms overlap: their inclusive bounding boxes share
\* no cell and intersects is false of them, after every iteration of the loop
\* of generate_dungeon and test_dungeon.
C1_AcceptedRoomsDisjoint ==
    \A i, j \in 1 .. Len(rooms) :
        i # j => /\ BoxCells(rooms[i]) \cap BoxCells(rooms[j]) = {}
                 /\ ~intersects(rooms[i], rooms[j])

C1_Witness ==
    /\ Returned
    /\ Len(rooms) >= 2
    /\ r > Len(rooms)

\* C2: with two or more accepted rooms, every centre is a carved tile joined
\* to the first room's centre by orthogonal steps over carved tiles (floor or
\* down-stair), and no step of generation turns a carved tile back into a wall.
C2_CentersConnected ==
    /\ [](Len(rooms) >= 2 =>
            /\ Centers \subseteq Carved
            /\ Centers \subseteq Flood({center(rooms[1])}, {center(rooms[1])}, Carved))
    /\ [][\A c \in Grid : tiles[c] # "wall" => tiles'[c] # "wall"]_vars

C2_Witness ==
    /\ Returned
    /\ variant = "generate_dungeon"
    /\ Len(rooms) >= 2
    /\ center(rooms[1])[1] # center(rooms[2])[1]
    /\ center(rooms[1])[2] # center(rooms[2])[2]

\* C3: once a room is accepted, downstairs_location holds a down-stair tile;
\* it is the centre of the last accepted room when two or more were accepted
\* and (0, 0) when exactly one was; an iteration that accepts no room leaves it
\* and the tiles alone.
C3_StairsAtLastCenter ==
    /\ [](Len(rooms) >= 1 =>
            /\ tiles[downstairs_location] = "down_stairs"
            /\ (Len(rooms) >= 2 => downstairs_location = center(rooms[Len(rooms)]))
            /\ (Len(rooms) = 1 => downstairs_location = <<0, 0>>))
    /\ [][rooms' = rooms =>
            downstairs_location' = downstairs_location /\ tiles' = tiles]_vars

C3_Witness ==
    /\ Returned
    /\ variant = "test_dungeon"
    /\ Len(rooms) = 3
    /\ downstairs_location = center(rooms[3])
    /\ downstairs_location # center(rooms[2])

\* C7: after generation with at least one accepted room the player stands at
\* the first accepted room's player-insertion point, and that point belongs
\* to the room's inner area.
C7_PlayerInsideFirstRoom ==
    (Returned /\ Len(rooms) >= 1) =>
        LET p == Player(entities)
        IN  /\ <<p.x, p.y>> = place_player_coordinate(rooms[1])
            /\ <<p.x, p.y>> \in inner(rooms[1])

\* C8: every spawned entity stands on a cell of the inner area of an accepted
\* room, on a walkable tile.
C8_EntitiesOnInnerFloor ==
    \A e \in entities :
        e.id # PlayerId =>
            /\ \E i \in 1 .. Len(rooms) : <<e.x, e.y>> \in inner(rooms[i])
            /\ walkable(tiles[<<e.x, e.y>>])

\* C10: a level generate_dungeon returns with at least one accepted room
\* holds exactly one down-stair tile, the one at downstairs_location.
C10_ExactlyOneStair ==
    (Returned /\ variant = "generate_dungeon" /\ Len(rooms) >= 1) =>
        {c \in Grid : tiles[c] = "down_stairs"} = {downstairs_location}

----------------------------------------------------------------------------
(* Properties of the engine, checked under TurnSpec.                       *)

PlayerAt == LET p == Player(entities) IN <<p.x, p.y>>

\* The enemy loop has run to its end (no failure other than Impossible).
CycleDone ==
    /\ pc = "idle"
    /\ lastop \in {"handle_enemy_turns", "skip", "perform_none", "perform_Impossible"}

Snapshot == {e.id : e \in actors(entities)} \ {PlayerId}

\* C4: after update_fov visible is the field of view computed from the
\* player's cell, and explored is its old value united with it; over any
\* sequence of moves, update_fov and handle_enemy_turns explored loses no cell
\* and visible stays inside explored.
C4_FovReplacesExploredGrows ==
    /\ [](visible \subseteq explored)
    /\ [](lastop = "update_fov" => visible = compute_fov(tiles, PlayerAt, FovRadius))
    /\ [][explored \subseteq explored']_vars
    /\ [][lastop' = "update_fov" => explored' = explored \cup visible']_vars

\* update_fov has just dropped cells that were visible before and stay explored.
C4_Witness ==
    /\ lastop = "update_fov"
    /\ explored \ visible # {}
    /\ visible # {}

\* C5 as claimed: when the cycle ends every actor other than the player whose
\* ai was set when the cycle began has been invoked exactly once, and nothing
\* else has been invoked.
C5_InvokedOnceIfAiAtStart ==
    CycleDone =>
        \A i \in DOMAIN invoked :
            invoked[i] = IF i \in Snapshot /\ i \in had_ai THEN 1 ELSE 0

\* C5 amended: when the cycle ends every actor of the snapshot whose ai was
\* set when the loop reached it has been invoked exactly once, and nothing
\* else (the player, the items, the actors without ai when reached) has been
\* invoked; Impossible never leaves the loop, whatever the others did.
C5_InvokedOnceIfAiWhenReached ==
    /\ [](CycleDone =>
            /\ pending = {}
            /\ reached_ai \subseteq Snapshot
            /\ \A i \in DOMAIN invoked :
                   invoked[i] = IF i \in reached_ai THEN 1 ELSE 0)
    /\ [](lastop = "perform_Impossible" => pc # "raised")
    /\ [][(pc = "enemies" /\ lastop' \in {"perform_none", "perform_Impossible"}) =>
            Cardinality(pending') = Cardinality(pending) - 1]_vars
    /\ [][\A e \in entities :
            (e.id \in reached_ai' \ reached_ai) => (e.ai /\ e.id \in pending)]_vars

\* A cycle has ended in which one actor reported Impossible and two were invoked.
C5_Witness ==
    /\ CycleDone
    /\ lastop = "perform_Impossible"
    /\ Cardinality(reached_ai) = 2

----------------------------------------------------------------------------
(* Properties of the table look-ups, checked under TableSpec.              *)

\* The entries of a table whose threshold does not exceed floor.
Qualifying(table, floor) == {i \in 1 .. Len(table) : table[i][1] <= floor}

\* The entry with the greatest threshold among the entries I.
Greatest(table, I) == CHOOSE i \in I : \A j \in I : table[j][1] <= table[i][1]

\* The last weight a list gives a template.
LastWeight(values, e) ==
    LET J == {j \in 1 .. Len(values) : values[j][1] = e}
    IN  values[CHOOSE j \in J : \A k \in J : k <= j][2]

\* The mapping C6 describes: the templates of all entries whose threshold
\* does not exceed floor, each with the weight of its highest such threshold.
ClaimedChances(table, floor) ==
    LET Has(i, e) == \E j \in 1 .. Len(table[i][2]) : table[i][2][j][1] = e
        names == {table[i][2][j][1] : <<i, j>> \in
                    {q \in Qualifying(table, floor) \X (1 .. 2) :
                        q[2] <= Len(table[q[1]][2])}}
    IN  [e \in names |->
            LastWeight(table[Greatest(table,
                          {i \in Qualifying(table, floor) : Has(i, e)})][2], e)]

\* C6: get_entities_at_random returns number_of_entities templates of the
\* mapping collapsed from all entries with threshold <= floor, weighted by the
\* highest qualifying threshold's weight, and fails only when that mapping is
\* empty and number_of_entities > 0.
C6_DrawsFromAllQualifyingEntries ==
    (call.fn = "get_entities_at_random" /\ result.state # "pending") =>
        LET claimed == ClaimedChances(call.table, call.floor)
        IN  /\ (result.state # "returned") <=> (DOMAIN claimed = {} /\ call.count > 0)
            /\ result.state = "returned" =>
                /\ Len(result.value) = call.count
                /\ \A i \in 1 .. Len(result.value) : result.value[i] \in DOMAIN claimed
                /\ result.weights = claimed

\* C9: for a table in ascending threshold order get_max_value_for_floor
\* returns the value of the greatest threshold not above floor, 0 when there
\* is none; for [(1, 1), (4, 2)] that is 0 below floor 1, 1 on floors 1 to 3
\* and 2 from floor 4 on.
C9_ValueOfGreatestThreshold ==
    (call.fn = "get_max_value_for_floor" /\ result.state = "returned") =>
        LET I == Qualifying(call.table, call.floor)
        IN  /\ result.value = IF I = {} THEN 0
                              ELSE call.table[Greatest(call.table, I)][2]
            /\ call.table = << <<1, 1>>, <<4, 2>> >> =>
                result.value = IF call.floor < 1 THEN 0
                               ELSE IF call.floor < 4 THEN 1 ELSE 2

\* The loop broke at the second entry and returned the first entry's value.
C9_Witness ==
    /\ call.fn = "get_max_value_for_floor"
    /\ result.state = "returned"
    /\ Len(call.table) = 2
    /\ call.table[1][1] <= call.floor
    /\ call.table[2][1] > call.floor
    /\ result.value = call.table[1][2]
    /\ result.value # call.table[2][2]

====
